---- MODULE Spec2Model ----
(***************************************************************************)
(* vue-render-tracker: the render-event pipeline                           *)
(*   VueScanStore, Reporter, OverlayManager, VueScanInstrumentation,       *)
(*   VueScanPlugin                                                         *)
(* Time is Date.now() in milliseconds.  setTimeout callbacks and           *)
(* requestAnimationFrame callbacks are messages in flight: they run as     *)
(* separate steps, never inside another handler (single-threaded event     *)
(* loop).                                                                  *)
(***************************************************************************)
EXTENDS Integers, Sequences, FiniteSets, TLC

VARIABLES
    options,          \* VueScanStore._options
    reportData,       \* VueScanStore._reportData, a Map in insertion order: Seq of [key, info]
    instrReporter,    \* VueScanInstrumentation.reporter: the options object that Reporter holds
    pluginReporter,   \* VueScanPlugin.reporter: the options object that Reporter holds
    hasOverlay,       \* VueScanPlugin.overlay / VueScanInstrumentation.overlay is defined
    overlay,          \* the OverlayManager: ctx, shapes, animationFrameId, pendingFrames, canvas
    paused,           \* VueScanInstrumentation.paused
    installed,        \* app.config.globalProperties.$vueScan is set
    mixins,           \* number of global mixins registered on the application
    phase,            \* per component instance: "none", "created", "mounted", and
                      \* "updating" between its beforeUpdate and its updated hook
    compDef,          \* per component instance: its $options (name, __name)
    vueScanUpdateCount, \* per component instance: the injected data field
    now,              \* Date.now()
    timers,           \* pending setTimeout callbacks, in firing order: Seq of [kind, due]
    lastOp,           \* the operation that ran last
    out,              \* what that operation did to its surroundings: a set of strings
    sinceMount,       \* history, per component name: the update events handled since
                      \* the last mount event of that name; Dropped once one was ignored
    cycles,           \* history, per component instance: its update cycles so far
    reports           \* the array the last getAllReports() call handed to its caller

vars == << options, reportData, instrReporter, pluginReporter, hasOverlay, overlay,
           paused, installed, mixins, phase, compDef, vueScanUpdateCount, now,
           timers, lastOp, out, sinceMount, cycles, reports >>

\* ------------------------------------------------------------------ bounds
MaxTime == 50
TickStep == 25
MaxInstances == 2
MaxUpdates == 2
MaxShapes == 2
MaxTimers == 3
MaxMixins == 2

\* ------------------------------------------------------- program constants
AutoClearDelay == 50
ToneDuration == 50
DefaultFadeDuration == 500
DefaultBorderWidth == 1

Null == 0

Min(S) == CHOOSE x \in S : \A y \in S : x <= y

\* ---------------------------------------------------------- OverlayManager

DefaultColor == "rgba(142,97,227,0.5)"
DefaultBorderColor == "rgba(142,97,227,1)"

\* The browser's handle for a newly requested animation frame: a non-zero
\* integer that names no callback still pending.
requestAnimationFrame(pending) == Min((1..(Cardinality(pending) + 1)) \ pending)

\* a cancel that never reaches the browser
cancelAnimationFrameLost(pending, id) == pending

cancelAnimationFrame(pending, id) == pending \ {id}

\* new OverlayManager(container); getContext('2d') may return null
NewOverlayManager(hasCtx) ==
    [ ctx |-> hasCtx, shapes |-> << >>, animationFrameId |-> Null,
      pendingFrames |-> {}, canvas |-> << >> ]

\* a clear() that forgets the scheduled frame
clearKeepsFrame(o) ==
    IF ~o.ctx THEN [o EXCEPT !.shapes = << >>]
    ELSE [o EXCEPT !.shapes = << >>, !.canvas = << >>]

\* a clear() that stops the loop and wipes the canvas but keeps the shapes
clearKeepsShapes(o) ==
    LET stopped == IF o.animationFrameId # Null
                   THEN [o EXCEPT !.pendingFrames = cancelAnimationFrame(@, o.animationFrameId),
                                  !.animationFrameId = Null]
                   ELSE o
    IN  IF ~o.ctx THEN stopped ELSE [stopped EXCEPT !.canvas = << >>]

\* OverlayManager.clear()
clear(o) ==
    LET stopped == IF o.animationFrameId # Null
                   THEN [o EXCEPT !.pendingFrames = cancelAnimationFrame(@, o.animationFrameId),
                                  !.animationFrameId = Null]
                   ELSE o
        emptied == [stopped EXCEPT !.shapes = << >>]
    IN  IF ~o.ctx THEN emptied ELSE [emptied EXCEPT !.canvas = << >>]

\* OverlayManager.drawRect(params) at time t; params.fadeDuration is << >>
\* when the caller leaves it out
drawRect(o, params, t) ==
    LET shape == [ x |-> params.x, y |-> params.y,
                   width |-> params.width, height |-> params.height,
                   color |-> DefaultColor, borderColor |-> DefaultBorderColor,
                   borderWidth |-> DefaultBorderWidth,
                   fadeDuration |-> IF params.fadeDuration = << >>
                                    THEN DefaultFadeDuration
                                    ELSE params.fadeDuration[1],
                   startTime |-> t ]
        pushed == [o EXCEPT !.shapes = Append(@, shape)]
    IN  IF o.animationFrameId = Null
        THEN LET id == requestAnimationFrame(o.pendingFrames)
             IN  [pushed EXCEPT !.animationFrameId = id,
                                !.pendingFrames = @ \cup {id}]
        ELSE pushed

\* a drawShape whose opacity grows with the elapsed time
drawShapeElapsed(shape, elapsed) ==
    [ x |-> shape.x, y |-> shape.y, width |-> shape.width, height |-> shape.height,
      alphaNum |-> elapsed, alphaDen |-> shape.fadeDuration,
      border |-> (shape.borderColor # "" /\ shape.borderWidth # 0) ]

\* OverlayManager.drawShape(shape, alpha): what lands on the canvas.  alpha is
\* 1 - elapsed/fadeDuration, kept exact as the fraction alphaNum/alphaDen.
drawShape(shape, elapsed) ==
    [ x |-> shape.x, y |-> shape.y, width |-> shape.width, height |-> shape.height,
      alphaNum |-> shape.fadeDuration - elapsed, alphaDen |-> shape.fadeDuration,
      border |-> (shape.borderColor # "" /\ shape.borderWidth # 0) ]

\* an expiry test that is off by one comparison
ExpiredLate(shape, t) == t - shape.startTime > shape.fadeDuration

\* renderLoop: elapsed >= shape.fadeDuration
Expired(shape, t) == t - shape.startTime >= shape.fadeDuration

\* OverlayManager.renderLoop(), run by the browser for the pending frame
\* callback `id` at time t
renderLoop(o, id, t) ==
    LET fired == cancelAnimationFrame(o.pendingFrames, id)
        next == requestAnimationFrame(o.pendingFrames)
        rescheduled == [o EXCEPT !.pendingFrames = fired \cup {next},
                                 !.animationFrameId = next]
        kept == SelectSeq(o.shapes, LAMBDA s : ~Expired(s, t))
        drawn == [i \in 1..Len(kept) |-> drawShape(kept[i], t - kept[i].startTime)]
        painted == [rescheduled EXCEPT !.shapes = kept, !.canvas = drawn]
    IN  IF ~o.ctx THEN rescheduled
        ELSE IF Len(kept) = 0 /\ painted.animationFrameId # Null
             THEN [painted EXCEPT !.pendingFrames = cancelAnimationFrame(@, painted.animationFrameId),
                                  !.animationFrameId = Null]
             ELSE painted

\* ------------------------------------------------------------ VueScanStore

\* a merge that takes over only the options the update switches on
SpreadTruthy(a, b) ==
    [k \in DOMAIN a \cup DOMAIN b |->
        IF k \in DOMAIN b /\ (k \notin DOMAIN a \/ b[k]) THEN b[k] ELSE a[k]]

\* { ...a, ...b }: the fields of b over those of a
Spread(a, b) == b @@ a

OptionKeys == {"enabled", "log", "playSound", "showOverlay", "trackUpdates"}

\* VueScanStore: set options(newOpts)
SetOptions(current, newOpts) == Spread(current, newOpts)

HasKey(data, key) == \E i \in 1..Len(data) : data[i].key = key

\* a store that keeps the first record written for a key
setRenderInfoKeepsFirst(data, key, info) ==
    IF HasKey(data, key) THEN data
    ELSE Append(data, [key |-> key, info |-> info])

\* VueScanStore.setRenderInfo(key, info): Map.set keeps the position of a key
\* that is already present and appends a new one
setRenderInfo(data, key, info) ==
    IF HasKey(data, key)
    THEN [i \in 1..Len(data) |->
            IF data[i].key = key THEN [key |-> key, info |-> info] ELSE data[i]]
    ELSE Append(data, [key |-> key, info |-> info])

\* VueScanStore.getRenderInfo(key): << >> stands for undefined
getRenderInfo(data, key) ==
    IF HasKey(data, key)
    THEN << (CHOOSE e \in {data[i] : i \in 1..Len(data)} : e.key = key).info >>
    ELSE << >>

\* Array.from(map.entries()): the [key, info] pairs in insertion order
Entries(data) == [i \in 1..Len(data) |-> << data[i].key, data[i].info >>]

\* a getAllReports() that hands out a view of the map instead of a copy
getAllReportsLive(data) == [live |-> TRUE, items |-> Entries(data)]

\* VueScanStore.getAllReports(): a new array, filled at the time of the call
getAllReports(data) == [live |-> FALSE, items |-> Entries(data)]

\* ---------------------------------------------------------------- Reporter

\* Reporter.logRender(info): the effects it adds
logRender(reporterOptions, effects) ==
    IF ~reporterOptions.log THEN effects ELSE effects \cup {"log"}

\* Reporter.playSoundIfNeeded(info): "skip" when sound is off, "tone" when the
\* oscillator was started, "throw" when new AudioContext() raised
playSoundIfNeeded(reporterOptions, audioOk) ==
    IF ~reporterOptions.playSound THEN "skip"
    ELSE IF audioOk THEN "tone" ELSE "throw"

\* ---------------------------------------------------- VueScanInstrumentation

\* this.$options?.name || this.$options?.__name || 'UnknownVueComponent'
CompName(def) ==
    IF def.name # "" THEN def.name
    ELSE IF def.__name # "" THEN def.__name
    ELSE "UnknownVueComponent"

\* the toggle as it was when the plugin was constructed
TrackUpdatesAtConstruction == instrReporter.trackUpdates

\* this.store.options.trackUpdates, read at each call
TrackUpdates == options.trackUpdates

\* a hook that counts each update twice
beforeUpdateTwice(count) == count + 2

\* a hook that leaves the counter alone while the instrumentation is paused
beforeUpdateUnlessPaused(count) == IF paused THEN count ELSE count + 1

\* beforeUpdate(): this.vueScanUpdateCount++
beforeUpdate(count) == count + 1

\* mounted(): the count the hook passes to handleRender
MountCount == 0

\* The part of the state one call of handleRender can change.
World == [ reportData |-> reportData, overlay |-> overlay, timers |-> timers,
           out |-> {} ]

\* VueScanInstrumentation.handleRender(name, count, rect?) at time t; rect is
\* << >> when the hook passes none; audioOk is whether new AudioContext()
\* succeeds should the reporter ask for one
handleRender(w, name, count, rect, audioOk, t) ==
    IF paused THEN w
    ELSE IF ~TrackUpdates THEN w
    ELSE
    LET info == [ componentName |-> name, changes |-> << >>,
                  updateCount |-> count, timestamp |-> t ]
        stored == [w EXCEPT !.reportData = setRenderInfo(@, name, info)]
        logged == [stored EXCEPT !.out = logRender(instrReporter, @)]
        sound == playSoundIfNeeded(instrReporter, audioOk)
        played == IF sound = "tone"
                  THEN [logged EXCEPT !.out = @ \cup {"tone"},
                                      !.timers = Append(@, [kind |-> "tone", due |-> t + ToneDuration])]
                  ELSE logged
    IN  IF sound = "throw" THEN [logged EXCEPT !.out = @ \cup {"throw"}]
        ELSE IF hasOverlay /\ rect # << >>
        THEN [played EXCEPT
                !.overlay = drawRect(clear(@),
                                     [ x |-> rect[1].left, y |-> rect[1].top,
                                       width |-> rect[1].width, height |-> rect[1].height,
                                       fadeDuration |-> << >> ], t),
                !.timers = Append(@, [kind |-> "clear", due |-> t + AutoClearDelay])]
        ELSE played

\* ------------------------------------------------------------ VueScanPlugin

defaultOptions ==
    [ enabled |-> TRUE, log |-> TRUE, playSound |-> FALSE,
      showOverlay |-> FALSE, trackUpdates |-> TRUE ]

\* new VueScanPlugin(options): the options handed to the constructor
CtorOptions ==
    { << >>,
      [enabled |-> TRUE, showOverlay |-> TRUE, log |-> FALSE, playSound |-> FALSE],
      [showOverlay |-> TRUE, playSound |-> TRUE],
      [showOverlay |-> TRUE, trackUpdates |-> FALSE],
      [enabled |-> FALSE, showOverlay |-> TRUE] }

\* updateOptions(opts): the partial options a caller passes
PartialOptions ==
    { << >> } \cup UNION { [{k} -> BOOLEAN] : k \in OptionKeys }
              \cup { [log |-> FALSE, playSound |-> TRUE] }

Instances == 1..MaxInstances

\* $options of the components the application is made of
ComponentDefs ==
    { [name |-> "A", __name |-> "B"],
      [name |-> "", __name |-> "A"],
      [name |-> "", __name |-> ""] }

NoDef == [name |-> "", __name |-> ""]

\* components without a name option: named by their file, or not at all
UnnamedDefs == { def \in ComponentDefs : def.name = "" }

Names == { CompName(def) : def \in ComponentDefs }

Dropped == 0 - 1

\* this.$el: a real element with its bounding rectangle, or a text/comment node
Elements ==
    { [isHTMLElement |-> FALSE, rect |-> [left |-> 0, top |-> 0, width |-> 0, height |-> 0]],
      [isHTMLElement |-> TRUE, rect |-> [left |-> 10, top |-> 20, width |-> 30, height |-> 40]],
      [isHTMLElement |-> TRUE, rect |-> [left |-> 50, top |-> 60, width |-> 70, height |-> 80]] }

\* a hook that measures any root node, element or not
RectOfAnyNode(el) == << el.rect >>

\* el instanceof HTMLElement ? el.getBoundingClientRect() : undefined
RectOf(el) == IF el.isHTMLElement THEN << el.rect >> ELSE << >>

\* constructor(options?)
PluginInit(ctor, hasCtx) ==
    LET merged == Spread(defaultOptions, ctor)
    IN  /\ options = merged
        /\ reportData = << >>
        /\ pluginReporter = merged
        /\ instrReporter = merged
        /\ hasOverlay = (merged.enabled /\ merged.showOverlay)
        /\ overlay = NewOverlayManager(hasCtx)
        /\ paused = FALSE

\* no application yet, no timer pending
AppInit ==
    /\ installed = FALSE
    /\ mixins = 0
    /\ phase = [i \in Instances |-> "none"]
    /\ compDef = [i \in Instances |-> NoDef]
    /\ vueScanUpdateCount = [i \in Instances |-> 0]
    /\ now = 0
    /\ timers = << >>
    /\ lastOp = "constructor"
    /\ out = {}
    /\ sinceMount = [n \in Names |-> Dropped]
    /\ cycles = [i \in Instances |-> 0]
    /\ reports = [live |-> FALSE, items |-> << >>]

WithOverlay(ctor) == Spread(defaultOptions, ctor).enabled /\ Spread(defaultOptions, ctor).showOverlay

Init ==
    /\ \E ctor \in CtorOptions, hasCtx \in BOOLEAN :
          /\ PluginInit(ctor, hasCtx)
          /\ (hasCtx \/ WithOverlay(ctor))
    /\ AppInit

PluginUnchanged == UNCHANGED << options, pluginReporter, instrReporter, hasOverlay, paused >>
AppUnchanged == UNCHANGED << installed, mixins, phase, compDef, vueScanUpdateCount, sinceMount, cycles, reports >>

\* VueScanPlugin.install(app), reached through app.use(plugin), which Vue
\* runs once per plugin and application
Install ==
    /\ ~installed
    /\ mixins' = IF options.enabled THEN mixins + 1 ELSE mixins
    /\ installed' = TRUE
    /\ lastOp' = "install"
    /\ out' = {}
    /\ PluginUnchanged
    /\ UNCHANGED << reportData, overlay, phase, compDef, vueScanUpdateCount, now, timers, sinceMount, cycles, reports >>

\* VueScanPlugin.install(app) called once more on the same application,
\* before any component is created
InstallAgain ==
    /\ installed
    /\ mixins < MaxMixins
    /\ \A i \in Instances : phase[i] = "none"
    /\ mixins' = IF options.enabled THEN mixins + 1 ELSE mixins
    /\ lastOp' = "install"
    /\ out' = {}
    /\ PluginUnchanged
    /\ UNCHANGED << installed, reportData, overlay, phase, compDef, vueScanUpdateCount,
                    now, timers, sinceMount, cycles, reports >>

\* mixin data(): a component instance is created with the injected counter
Create(i, def) ==
    /\ mixins > 0
    /\ phase[i] = "none"
    /\ phase' = [phase EXCEPT ![i] = "created"]
    /\ compDef' = [compDef EXCEPT ![i] = def]
    /\ vueScanUpdateCount' = [vueScanUpdateCount EXCEPT ![i] = 0]
    /\ cycles' = [cycles EXCEPT ![i] = 0]
    /\ lastOp' = "data"
    /\ out' = {}
    /\ PluginUnchanged
    /\ UNCHANGED << reportData, overlay, installed, mixins, now, timers, sinceMount, reports >>

RECURSIVE SumCounts(_, _)
SumCounts(counts, S) ==
    IF S = {} THEN 0
    ELSE LET i == CHOOSE j \in S : TRUE IN counts[i] + SumCounts(counts, S \ {i})

\* update cycles the application has gone through
UpdateCycles == SumCounts(vueScanUpdateCount, Instances)

\* a render event may add two timers
TimersFit == Len(timers) + 2 <= MaxTimers

Apply(w) ==
    /\ reportData' = w.reportData
    /\ overlay' = w.overlay
    /\ timers' = w.timers
    /\ out' = w.out

\* whether handleRender gets past its two early returns
Handled == ~paused /\ TrackUpdates

\* Vue calls the beforeUpdate hook of every registered mixin, one after the
\* other: k mixins still to run
RECURSIVE EachMixinBeforeUpdate(_, _)
EachMixinBeforeUpdate(k, count) ==
    IF k = 0 THEN count ELSE EachMixinBeforeUpdate(k - 1, beforeUpdate(count))

\* and likewise the mounted / updated hook of every registered mixin, each of
\* which calls handleRender
RECURSIVE EachMixinHandleRender(_, _, _, _, _, _, _)
EachMixinHandleRender(k, w, name, count, rect, audioOk, t) ==
    IF k = 0 THEN w
    ELSE EachMixinHandleRender(k - 1, handleRender(w, name, count, rect, audioOk, t),
                               name, count, rect, audioOk, t)

\* mixin mounted()
Mounted(i, el, audioOk) ==
    /\ phase[i] = "created"
    /\ TimersFit
    /\ phase' = [phase EXCEPT ![i] = "mounted"]
    /\ Apply(EachMixinHandleRender(mixins, World, CompName(compDef[i]), MountCount, RectOf(el), audioOk, now))
    /\ lastOp' = "mounted"
    /\ sinceMount' = [sinceMount EXCEPT ![CompName(compDef[i])] = 0]
    /\ PluginUnchanged
    /\ UNCHANGED << installed, mixins, compDef, vueScanUpdateCount, now, cycles, reports >>

\* mixin beforeUpdate(): Vue calls it when an update cycle of a mounted
\* instance begins, and then goes on to render and patch the component
BeforeUpdate(i) ==
    /\ phase[i] = "mounted"
    /\ UpdateCycles < MaxUpdates
    /\ phase' = [phase EXCEPT ![i] = "updating"]
    /\ cycles' = [cycles EXCEPT ![i] = @ + 1]
    /\ vueScanUpdateCount' = [vueScanUpdateCount EXCEPT ![i] = EachMixinBeforeUpdate(mixins, @)]
    /\ lastOp' = "beforeUpdate"
    /\ out' = {}
    /\ PluginUnchanged
    /\ UNCHANGED << reportData, overlay, installed, mixins, compDef, now, timers,
                    sinceMount, reports >>

\* mixin updated(): Vue calls it from its post-flush queue, once the instance
\* that went through beforeUpdate has been patched
Updated(i, el, audioOk) ==
    /\ phase[i] = "updating"
    /\ TimersFit
    /\ phase' = [phase EXCEPT ![i] = "mounted"]
    /\ Apply(EachMixinHandleRender(mixins, World, CompName(compDef[i]), vueScanUpdateCount[i],
                                   RectOf(el), audioOk, now))
    /\ lastOp' = "updated"
    /\ sinceMount' = [sinceMount EXCEPT ![CompName(compDef[i])] =
                         IF @ = Dropped \/ ~Handled THEN Dropped ELSE @ + 1]
    /\ PluginUnchanged
    /\ UNCHANGED << installed, mixins, compDef, vueScanUpdateCount, now, cycles, reports >>

\* the render or patch between the two hooks raises: beforeUpdate has run and
\* the updated hook of this cycle is never called
RenderFails(i) ==
    /\ phase[i] = "updating"
    /\ phase' = [phase EXCEPT ![i] = "mounted"]
    /\ lastOp' = "renderError"
    /\ out' = {}
    /\ PluginUnchanged
    /\ UNCHANGED << reportData, overlay, installed, mixins, compDef, vueScanUpdateCount,
                    now, timers, sinceMount, cycles, reports >>

\* VueScanInstrumentation.setPaused(p)
SetPaused(p) ==
    /\ paused' = p
    /\ lastOp' = "setPaused"
    /\ out' = {}
    /\ AppUnchanged
    /\ UNCHANGED << options, pluginReporter, instrReporter, hasOverlay,
                    reportData, overlay, now, timers >>

\* VueScanPlugin.start()
Start ==
    /\ paused' = FALSE
    /\ lastOp' = "start"
    /\ out' = {"startLog"}
    /\ AppUnchanged
    /\ UNCHANGED << options, pluginReporter, instrReporter, hasOverlay,
                    reportData, overlay, now, timers >>

\* a stop() that pauses and leaves the overlay as it is
StopKeepsOverlay ==
    /\ paused' = TRUE
    /\ lastOp' = "stop"
    /\ out' = {}
    /\ AppUnchanged
    /\ UNCHANGED << options, pluginReporter, instrReporter, hasOverlay,
                    reportData, overlay, now, timers >>

\* VueScanPlugin.stop()
Stop ==
    /\ paused' = TRUE
    /\ overlay' = IF hasOverlay THEN clear(overlay) ELSE overlay
    /\ lastOp' = "stop"
    /\ out' = {}
    /\ AppUnchanged
    /\ UNCHANGED << options, pluginReporter, instrReporter, hasOverlay,
                    reportData, now, timers >>

\* VueScanPlugin.updateOptions(opts)
UpdateOptions(opts) ==
    /\ options' = SetOptions(options, Spread(options, opts))
    /\ pluginReporter' = options'
    /\ lastOp' = "updateOptions"
    /\ out' = {}
    /\ AppUnchanged
    /\ UNCHANGED << instrReporter, hasOverlay, paused, reportData, overlay, now, timers >>

\* VueScanPlugin.highlightRect(x, y, w, h)
HighlightRect(x, y, w, h) ==
    /\ overlay' = IF ~hasOverlay THEN overlay
                  ELSE drawRect(clear(overlay),
                                [ x |-> x, y |-> y, width |-> w, height |-> h,
                                  fadeDuration |-> << >> ], now)
    /\ lastOp' = "highlightRect"
    /\ out' = {}
    /\ AppUnchanged
    /\ PluginUnchanged
    /\ UNCHANGED << reportData, now, timers >>

\* VueScanPlugin.getAllReports(): the caller keeps the array it is handed
GetAllReports ==
    /\ reports' = getAllReports(reportData)
    /\ lastOp' = "getAllReports"
    /\ out' = {}
    /\ PluginUnchanged
    /\ UNCHANGED << installed, mixins, phase, compDef, vueScanUpdateCount, sinceMount, cycles >>
    /\ UNCHANGED << reportData, overlay, now, timers >>

\* timers whose auto-clear is called off by a pause
TimerFiresUnlessPaused ==
    /\ timers # << >>
    /\ Head(timers).due <= now
    /\ timers' = Tail(timers)
    /\ overlay' = IF Head(timers).kind = "clear" /\ hasOverlay /\ ~paused
                  THEN clear(overlay) ELSE overlay
    /\ out' = IF Head(timers).kind = "tone" THEN {"toneStop"} ELSE {}
    /\ lastOp' = "timeout"
    /\ AppUnchanged
    /\ PluginUnchanged
    /\ UNCHANGED << reportData, now >>

\* the browser runs the oldest setTimeout callback once its delay has passed:
\* () => this.overlay?.clear(), or () => { oscillator.stop(); beep.close() }
TimerFires ==
    /\ timers # << >>
    /\ Head(timers).due <= now
    /\ timers' = Tail(timers)
    /\ overlay' = IF Head(timers).kind = "clear" /\ hasOverlay THEN clear(overlay) ELSE overlay
    /\ out' = IF Head(timers).kind = "tone" THEN {"toneStop"} ELSE {}
    /\ lastOp' = "timeout"
    /\ AppUnchanged
    /\ PluginUnchanged
    /\ UNCHANGED << reportData, now >>

\* the browser runs a pending animation frame callback
Frame ==
    /\ \E id \in overlay.pendingFrames : overlay' = renderLoop(overlay, id, now)
    /\ lastOp' = "renderLoop"
    /\ out' = {}
    /\ AppUnchanged
    /\ PluginUnchanged
    /\ UNCHANGED << reportData, now, timers >>

\* time passes
Tick ==
    /\ now < MaxTime
    /\ now' = now + TickStep
    /\ lastOp' = "tick"
    /\ out' = {}
    /\ AppUnchanged
    /\ PluginUnchanged
    /\ UNCHANGED << reportData, overlay, timers >>

\* The whole plugin watching one component instance, with time, timers and
\* animation frames.  The component's renders succeed: every beforeUpdate is
\* followed by its updated hook, with any other operation in between.
Watched == {1}

\* what a caller hands to OverlayManager.drawRect
DrawParams ==
    [ x : {5}, y : {5}, width : {10}, height : {10},
      fadeDuration : { << >>, << 0 - TickStep >>, << 0 >>, << TickStep >>, << 2 * TickStep >> } ]

\* OverlayManager.drawRect(params), called on the overlay directly
DrawRect(params) ==
    /\ Len(overlay.shapes) < MaxShapes
    /\ overlay' = drawRect(overlay, params, now)
    /\ lastOp' = "drawRect"
    /\ out' = {}
    /\ AppUnchanged
    /\ PluginUnchanged
    /\ UNCHANGED << reportData, now, timers >>

\* OverlayManager.clear(), called on the overlay directly
Clear ==
    /\ overlay' = clear(overlay)
    /\ lastOp' = "clear"
    /\ out' = IF overlay'.pendingFrames # overlay.pendingFrames
              THEN {"cancelAnimationFrame"} ELSE {}
    /\ AppUnchanged
    /\ PluginUnchanged
    /\ UNCHANGED << reportData, now, timers >>

Next ==
    \/ Install
    \/ \E i \in Watched, def \in UnnamedDefs : Create(i, def)
    \/ \E i \in Watched, el \in Elements, audioOk \in BOOLEAN : Mounted(i, el, audioOk)
    \/ \E i \in Watched : BeforeUpdate(i)
    \/ \E i \in Watched, el \in Elements, audioOk \in BOOLEAN : Updated(i, el, audioOk)
    \/ \E p \in BOOLEAN : SetPaused(p)
    \/ Start
    \/ Stop
    \/ HighlightRect(5, 5, 10, 10)
    \/ TimerFires
    \/ Frame
    \/ Tick

Spec == Init /\ [][Next]_vars

\* Counting: several component instances, some sharing a name, on a plugin
\* without overlay or sound; the clock stands still.
CountInit ==
    /\ \E ctor \in { << >>, [trackUpdates |-> FALSE] } : PluginInit(ctor, TRUE)
    /\ AppInit

CountNext ==
    \/ Install
    \/ \E i \in Instances, def \in UnnamedDefs : Create(i, def)
    \/ \E i \in Instances, el \in Elements : Mounted(i, el, TRUE)
    \/ \E i \in Instances : BeforeUpdate(i)
    \/ \E i \in Instances, el \in Elements : Updated(i, el, TRUE)
    \/ \E i \in Instances : RenderFails(i)
    \/ \E p \in BOOLEAN : SetPaused(p)
    \/ \E b \in BOOLEAN : UpdateOptions([trackUpdates |-> b])

SpecCount == CountInit /\ [][CountNext]_vars

\* The OverlayManager on its own, driven by drawRect, clear, animation frames
\* and the clock.
OverlayInit ==
    /\ \E hasCtx \in BOOLEAN : PluginInit(<< >>, hasCtx)
    /\ AppInit

OverlayNext ==
    \/ \E params \in DrawParams : DrawRect(params)
    \/ Clear
    \/ Frame
    \/ Tick

SpecOverlay == OverlayInit /\ [][OverlayNext]_vars

\* Reading the store: several component instances write their records and a
\* caller asks for the reports in between; the clock stands still.
StoreNext ==
    \/ Install
    \/ \E i \in Instances, def \in ComponentDefs : Create(i, def)
    \/ \E i \in Instances, el \in Elements : Mounted(i, el, TRUE)
    \/ \E i \in Instances : BeforeUpdate(i)
    \/ \E i \in Instances, el \in Elements : Updated(i, el, TRUE)
    \/ \E i \in Instances : RenderFails(i)
    \/ GetAllReports

SpecStore == CountInit /\ [][StoreNext]_vars

\* Installing twice: the plugin is installed on one application up to
\* MaxMixins times before the components are created; no overlay, no sound,
\* the clock stands still.
ReinstallNext ==
    \/ Install
    \/ InstallAgain
    \/ \E i \in Instances, def \in ComponentDefs : Create(i, def)
    \/ \E i \in Instances, el \in Elements : Mounted(i, el, TRUE)
    \/ \E i \in Instances : BeforeUpdate(i)
    \/ \E i \in Instances, el \in Elements : Updated(i, el, TRUE)
    \/ \E i \in Instances : RenderFails(i)

SpecReinstall == CountInit /\ [][ReinstallNext]_vars

\* The animation loop left to run: drawRect is called only before MaxTime,
\* after that the clock goes on for as long as a shape has not reached its
\* expiry, and the browser keeps running the frame callbacks it was asked for.
DrawRectEarly(params) ==
    /\ now < MaxTime
    /\ DrawRect(params)

Advance ==
    /\ \/ now < MaxTime
       \/ \E k \in 1..Len(overlay.shapes) : ~Expired(overlay.shapes[k], now)
    /\ now' = now + TickStep
    /\ lastOp' = "tick"
    /\ out' = {}
    /\ AppUnchanged
    /\ PluginUnchanged
    /\ UNCHANGED << reportData, overlay, timers >>

LoopNext ==
    \/ \E params \in DrawParams : DrawRectEarly(params)
    \/ Clear
    \/ Frame
    \/ Advance

SpecLoop == OverlayInit /\ [][LoopNext]_vars /\ WF_vars(Frame) /\ WF_vars(Advance)

\* Reconfiguration: the plugin watching one component instance while its
\* options are updated; the clock stands still, so no timer comes due.
OptionsNext ==
    \/ Install
    \/ \E i \in Watched, def \in UnnamedDefs : Create(i, def)
    \/ \E i \in Watched, el \in Elements, audioOk \in BOOLEAN : Mounted(i, el, audioOk)
    \/ \E i \in Watched : BeforeUpdate(i)
    \/ \E i \in Watched, el \in Elements, audioOk \in BOOLEAN : Updated(i, el, audioOk)
    \/ \E i \in Watched : RenderFails(i)
    \/ \E opts \in PartialOptions : UpdateOptions(opts)

SpecOptions == Init /\ [][OptionsNext]_vars

\* ------------------------------------------------------------------ claims

RenderOps == {"mounted", "updated"}

\* the record stored under a name, as << info >> or << >>
Record(n) == getRenderInfo(reportData, n)

\* the step is the mounted hook, or an update cycle, of instance i
MountedStep(i) == lastOp' = "mounted" /\ phase[i] = "created" /\ phase'[i] = "mounted"
BeforeUpdateStep(i) == lastOp' = "beforeUpdate" /\ phase[i] = "mounted" /\ phase'[i] = "updating"
UpdatedStep(i) == lastOp' = "updated" /\ phase[i] = "updating" /\ phase'[i] = "mounted"

\* C1 as claimed: after N handled update events on one component name with no
\* mount event of that name in between, the record stored under the name has
\* updateCount = N, also when several mounted instances share the name.
C1_CountPerName ==
    \A n \in Names :
        sinceMount[n] >= 1 =>
            /\ Record(n) # << >>
            /\ Record(n)[1].updateCount = sinceMount[n]

\* C1 amended: the count is kept per component instance.  When an update
\* event of an instance is handled (not paused, trackUpdates true), the record
\* stored under its name right after it has updateCount = N, the number of
\* update cycles of that one instance since it was created.
C1_CountPerInstance ==
    [][ \A i \in Instances :
          (UpdatedStep(i) /\ Handled) =>
              /\ getRenderInfo(reportData', CompName(compDef[i])) # << >>
              /\ getRenderInfo(reportData', CompName(compDef[i]))[1].updateCount = cycles'[i]
      ]_vars

\* the second update of an instance has just been handled and stored as 2
C1_Witness ==
    /\ lastOp = "updated"
    /\ Handled
    /\ \E i \in Instances :
          /\ cycles[i] = 2
          /\ Record(CompName(compDef[i])) # << >>
          /\ Record(CompName(compDef[i]))[1].updateCount = 2

\* C10: a mount event that is handled (not paused, trackUpdates true) leaves
\* the record stored under the component's name with updateCount = 0, whatever
\* was stored before under this or any other name.
C10_MountStoresZero ==
    [][ \A i \in Instances :
          (MountedStep(i) /\ Handled) =>
              /\ getRenderInfo(reportData', CompName(compDef[i])) # << >>
              /\ getRenderInfo(reportData', CompName(compDef[i]))[1].updateCount = 0
              /\ \A n \in Names \ {CompName(compDef[i])} :
                    getRenderInfo(reportData', n) = getRenderInfo(reportData, n)
      ]_vars

\* a mount has just stored 0 under a name whose other mounted instance has
\* already been updated, while another name holds a record of its own
C10_Witness ==
    /\ lastOp = "mounted"
    /\ Handled
    /\ \E i, j \in Instances :
          /\ i # j
          /\ phase[i] = "mounted" /\ phase[j] = "mounted"
          /\ CompName(compDef[i]) = CompName(compDef[j])
          /\ cycles[i] = 0 /\ cycles[j] >= 1
          /\ Record(CompName(compDef[i])) # << >>
          /\ Record(CompName(compDef[i]))[1].updateCount = 0

\* a render event of instance i with root node el
EventStep(i, el, audioOk) ==
    /\ lastOp' \in RenderOps
    /\ Mounted(i, el, audioOk) \/ Updated(i, el, audioOk)

\* the shape handleRender draws for the bounding rectangle rect at time t
EventShape(rect, t) ==
    drawRect(NewOverlayManager(TRUE),
             [ x |-> rect.left, y |-> rect.top, width |-> rect.width,
               height |-> rect.height, fadeDuration |-> << >> ], t).shapes[1]

IsEventShape(shape) ==
    \E el \in Elements : el.isHTMLElement /\ shape = EventShape(el.rect, shape.startTime)

\* C2 as claimed: a render event while paused changes neither the store nor
\* the shape list, writes no log line, plays no sound and schedules no timer;
\* the render event that comes right after setPaused(false) or start()
\* (trackUpdates true) is stored, reported, and drawn when there is an overlay
\* and the root node is an element.
C2_PauseAndResume ==
    [][ \A i \in Watched, el \in Elements, audioOk \in BOOLEAN :
          EventStep(i, el, audioOk) =>
              IF paused
              THEN /\ reportData' = reportData
                   /\ overlay' = overlay
                   /\ timers' = timers
                   /\ out' = {}
              ELSE (lastOp \in {"setPaused", "start"} /\ TrackUpdates) =>
                   /\ getRenderInfo(reportData', CompName(compDef[i])) # << >>
                   /\ getRenderInfo(reportData', CompName(compDef[i]))[1].timestamp = now
                   /\ instrReporter.log => "log" \in out'
                   /\ (hasOverlay /\ el.isHTMLElement) =>
                         overlay'.shapes = << EventShape(el.rect, now) >>
      ]_vars

\* C3 as claimed: a handled render event writes a log line iff the current
\* (merged) options have log = true, and asks for a tone iff they have
\* playSound = true.
C3_ReporterFollowsOptions ==
    (lastOp \in RenderOps /\ Handled) =>
        /\ ("log" \in out) <=> options.log
        /\ (out \cap {"tone", "throw"} # {}) <=> options.playSound

\* C4 as claimed: when playSound is on and no audio context can be had, a
\* handled render event raises nothing, is stored, is logged when log is on
\* and is drawn when there is an overlay and the root node is an element.
C4_AudioFailureHarmless ==
    [][ \A i \in Watched, el \in Elements :
          (EventStep(i, el, FALSE) /\ Handled /\ instrReporter.playSound) =>
              /\ "throw" \notin out'
              /\ getRenderInfo(reportData', CompName(compDef[i])) # << >>
              /\ instrReporter.log => "log" \in out'
              /\ (hasOverlay /\ el.isHTMLElement) =>
                    overlay'.shapes = << EventShape(el.rect, now) >>
      ]_vars

\* C5 as claimed: a shape with fade duration D > 0 created at T is in the
\* shape list only while now < T + D, whenever the frame callbacks run.
C5_AbsentOnceExpired ==
    \A k \in 1..Len(overlay.shapes) :
        overlay.shapes[k].fadeDuration > 0 => ~Expired(overlay.shapes[k], now)

\* C5 amended: removal waits for a frame.  Right after a frame callback that
\* filters the shape list (the overlay has a drawing context) no shape with
\* now >= T + D is left, and whatever is on the canvas was drawn at an opacity
\* in (0, 1]; until that frame an expired shape is still in the list.
C5_AbsentAfterFrame ==
    /\ \A k \in 1..Len(overlay.shapes) : overlay.shapes[k].startTime <= now
    /\ (lastOp = "renderLoop" /\ overlay.ctx) =>
          \A k \in 1..Len(overlay.shapes) : ~Expired(overlay.shapes[k], now)
    /\ \A k \in 1..Len(overlay.canvas) :
          /\ 0 < overlay.canvas[k].alphaNum
          /\ overlay.canvas[k].alphaNum <= overlay.canvas[k].alphaDen

\* time has passed and a frame has just emptied the list and stopped the loop
C5_Witness ==
    /\ lastOp = "renderLoop"
    /\ overlay.ctx
    /\ now >= TickStep
    /\ overlay.shapes = << >>
    /\ overlay.animationFrameId = Null

\* C6 as claimed: the rectangle drawn by the latest render event stays in the
\* shape list for the 50ms after the event unless a later render event,
\* highlightRect or stop() replaces or clears it; a timer of an earlier event
\* does not remove it.
C6_LatestRectangleStays ==
    [][ ( /\ overlay.shapes # << >>
          /\ IsEventShape(overlay.shapes[Len(overlay.shapes)])
          /\ now' < overlay.shapes[Len(overlay.shapes)].startTime + AutoClearDelay
          /\ lastOp' \notin RenderOps \cup {"highlightRect", "stop"} )
        => overlay'.shapes = overlay.shapes
      ]_vars

\* C7: clear() leaves no shape and no frame callback, scheduled or recorded,
\* and a second clear() right after it changes nothing.
C7_ClearStopsLoop ==
    lastOp = "clear" =>
        /\ overlay.shapes = << >>
        /\ overlay.animationFrameId = Null
        /\ overlay.pendingFrames = {}
        /\ clear(overlay) = overlay

\* clear() has just cancelled a scheduled frame
C7_Witness ==
    /\ lastOp = "clear"
    /\ "cancelAnimationFrame" \in out
    /\ now >= TickStep

\* C8: between operations the loop is Idle (no shape, no frame callback) or
\* Running (a shape, exactly one frame callback, the one animationFrameId
\* names).
C8_IdleOrRunning ==
    \/ /\ overlay.shapes = << >>
       /\ overlay.pendingFrames = {}
       /\ overlay.animationFrameId = Null
    \/ /\ overlay.shapes # << >>
       /\ overlay.animationFrameId # Null
       /\ overlay.pendingFrames = {overlay.animationFrameId}

\* a frame has run and left the loop running with two shapes
C8_Witness ==
    /\ lastOp = "renderLoop"
    /\ Len(overlay.shapes) = 2
    /\ Cardinality(overlay.pendingFrames) = 1

\* C9: trackUpdates is read from the current options at each render event.
\* updateOptions sets the toggle it is given; with the toggle off a render
\* event changes neither store nor overlay nor timers and reports nothing;
\* with it on the event's record is stored and logged as the reporter says.
C9_ToggleReadPerEvent ==
    [][ /\ \A opts \in PartialOptions :
             (UpdateOptions(opts) /\ "trackUpdates" \in DOMAIN opts) =>
                 options'.trackUpdates = opts.trackUpdates
        /\ \A i \in Watched :
             (MountedStep(i) \/ UpdatedStep(i)) =>
                 IF ~options.trackUpdates
                 THEN /\ reportData' = reportData
                      /\ overlay' = overlay
                      /\ timers' = timers
                      /\ out' = {}
                 ELSE /\ getRenderInfo(reportData', CompName(compDef[i])) # << >>
                      /\ getRenderInfo(reportData', CompName(compDef[i]))[1].updateCount
                            = vueScanUpdateCount'[i]
                      /\ ("log" \in out') <=> instrReporter.log
      ]_vars

\* constructed with the toggle off: the mount went unrecorded, the first
\* update was stored after updateOptions switched the toggle on, and the
\* second update has just been ignored after it was switched off again
C9_Witness ==
    /\ lastOp = "updated"
    /\ ~options.trackUpdates
    /\ ~instrReporter.trackUpdates
    /\ cycles[1] = 2
    /\ Record(CompName(compDef[1])) # << >>
    /\ Record(CompName(compDef[1]))[1].updateCount = 1

\* C11: updateOptions(partial) is a field-wise shallow merge.  Every option
\* the partial names has the partial's value afterwards, false included, every
\* other option keeps its value, and the same call made once more leaves the
\* options as they are.
C11_FieldWiseMerge ==
    [][ \A opts \in PartialOptions :
          (lastOp' = "updateOptions" /\ UpdateOptions(opts)) =>
              /\ DOMAIN options' = OptionKeys
              /\ \A k \in OptionKeys :
                    options'[k] = IF k \in DOMAIN opts THEN opts[k] ELSE options[k]
              /\ SetOptions(options', Spread(options', opts)) = options'
      ]_vars

\* updateOptions has just switched off an option that was on at construction
\* and left another one, also changed since construction, as it was
C11_Witness ==
    /\ lastOp = "updateOptions"
    /\ instrReporter.log /\ ~options.log
    /\ ~instrReporter.playSound /\ options.playSound
    /\ options.trackUpdates = instrReporter.trackUpdates


\* the auto-clear timers among the pending ones
ClearTimers(ts) == SelectSeq(ts, LAMBDA timer : timer.kind = "clear")

\* C12: a render event of a component whose root node is no element, not
\* paused and with trackUpdates true, is stored and reported (logged when log
\* is on, a tone asked for when playSound is on) and leaves the overlay as it
\* is: no shape added, none cleared, no frame scheduled or cancelled, and no
\* auto-clear timer scheduled.
C12_NoGeometryNoOverlay ==
    [][ \A i \in Watched, el \in Elements, audioOk \in BOOLEAN :
          (EventStep(i, el, audioOk) /\ ~el.isHTMLElement /\ Handled) =>
              /\ getRenderInfo(reportData', CompName(compDef[i])) # << >>
              /\ getRenderInfo(reportData', CompName(compDef[i]))[1].timestamp = now
              /\ getRenderInfo(reportData', CompName(compDef[i]))[1].updateCount
                    = vueScanUpdateCount'[i]
              /\ ("log" \in out') <=> instrReporter.log
              /\ (out' \cap {"tone", "throw"} # {}) <=> instrReporter.playSound
              /\ overlay' = overlay
              /\ ClearTimers(timers') = ClearTimers(timers)
      ]_vars

\* an update without geometry has just been stored while the rectangle of an
\* earlier event is still in the shape list
C12_Witness ==
    /\ lastOp = "updated"
    /\ Handled
    /\ hasOverlay
    /\ now >= TickStep
    /\ Len(overlay.shapes) = 1
    /\ overlay.shapes[1].startTime < now
    /\ IsEventShape(overlay.shapes[1])
    /\ Record(CompName(compDef[1])) # << >>
    /\ Record(CompName(compDef[1]))[1].timestamp = now


\* the loop is Idle: no shape and no frame callback, scheduled or recorded
Idle ==
    /\ overlay.shapes = << >>
    /\ overlay.pendingFrames = {}
    /\ overlay.animationFrameId = Null

\* C13: right after stop() the instrumentation is paused, the shape list is
\* empty and no frame callback is scheduled.  The pause flag then stays set
\* until start() (or setPaused) changes it, and while it is set no render event
\* changes the store, the overlay or the timers.  start() clears the flag,
\* and a render event with the flag cleared and trackUpdates true is stored.
C13_StopAndStart ==
    [][ /\ lastOp' = "stop" =>
              /\ paused'
              /\ overlay'.shapes = << >>
              /\ overlay'.pendingFrames = {}
              /\ overlay'.animationFrameId = Null
        /\ (paused /\ lastOp' \notin {"start", "setPaused"}) => paused'
        /\ lastOp' = "start" => ~paused'
        /\ \A i \in Watched :
              (MountedStep(i) \/ UpdatedStep(i)) =>
                  IF paused
                  THEN /\ reportData' = reportData
                       /\ overlay' = overlay
                       /\ timers' = timers
                       /\ out' = {}
                  ELSE TrackUpdates =>
                       /\ getRenderInfo(reportData', CompName(compDef[i])) # << >>
                       /\ getRenderInfo(reportData', CompName(compDef[i]))[1].timestamp = now
                       /\ getRenderInfo(reportData', CompName(compDef[i]))[1].updateCount
                             = vueScanUpdateCount'[i]
      ]_vars

\* stop() has just run on a plugin with an overlay while the auto-clear timer
\* of a stored render event's rectangle is still pending and not yet due
C13_Witness ==
    /\ lastOp = "stop"
    /\ hasOverlay
    /\ paused
    /\ Idle
    /\ reportData # << >>
    /\ timers # << >>
    /\ Head(timers).kind = "clear"
    /\ Head(timers).due > now


\* what the caller of the last getAllReports() finds in the array it holds
Returned(held, data) == IF held.live THEN Entries(data) ELSE held.items

\* the pairs of an array of reports whose key is n
PairsOf(items, n) == { k \in 1..Len(items) : items[k][1] = n }

\* C14: getAllReports() returns one (key, record) pair per key ever written,
\* each with the record of the latest write for that key, whatever the order
\* of the writes: a handled render event leaves exactly one pair for its name,
\* holding the record just written, and the pairs of every other name as they
\* were; no other operation changes what getAllReports() would return.  The
\* array a caller was handed holds what the store held at the call and is not
\* changed by later writes.
C14_ReportsSnapshot ==
    [][ /\ \A i \in Instances :
              ((MountedStep(i) \/ UpdatedStep(i)) /\ Handled) =>
                  LET n == CompName(compDef[i])
                      before == getAllReports(reportData).items
                      after == getAllReports(reportData').items
                  IN  /\ Cardinality(PairsOf(after, n)) = 1
                      /\ \A k \in PairsOf(after, n) :
                            /\ after[k][2].componentName = n
                            /\ after[k][2].updateCount = vueScanUpdateCount'[i]
                            /\ after[k][2].timestamp = now
                      /\ \A m \in Names \ {n} :
                            { after[k] : k \in PairsOf(after, m) }
                               = { before[k] : k \in PairsOf(before, m) }
                      /\ \A m \in Names : Cardinality(PairsOf(after, m)) <= 1
        /\ (lastOp' \notin RenderOps \/ ~Handled) =>
              getAllReports(reportData').items = getAllReports(reportData).items
        /\ lastOp' = "getAllReports" =>
              Returned(reports', reportData') = getAllReports(reportData).items
        /\ lastOp' # "getAllReports" =>
              Returned(reports', reportData') = Returned(reports, reportData)
      ]_vars

\* the caller holds an array with one pair, taken before a second key was
\* written and before the first key's record was replaced
C14_Witness ==
    /\ lastOp \in RenderOps
    /\ ~reports.live
    /\ Len(reports.items) = 1
    /\ Len(getAllReports(reportData).items) = 2
    /\ \E k \in 1..2 :
          /\ getAllReports(reportData).items[k][1] = reports.items[1][1]
          /\ getAllReports(reportData).items[k][2] # reports.items[1][2]


\* C15 as claimed: a plugin constructed with enabled = false never has its
\* hooks attached to the application, whatever updateOptions calls come
\* between construction and install, so that no render event reaches the
\* store.  (instrReporter holds the options object of the construction.)
C15_DisabledAtConstruction ==
    ~instrReporter.enabled =>
        /\ mixins = 0
        /\ reportData = << >>


\* C16 as claimed: however often the plugin was installed on the application,
\* one update cycle of a component raises its counter by exactly 1, and the
\* record stored for it, when the event is handled, counts its update cycles.
C16_ReinstallIsNoOp ==
    [][ \A i \in Instances :
          /\ BeforeUpdateStep(i) => vueScanUpdateCount'[i] = vueScanUpdateCount[i] + 1
          /\ (UpdatedStep(i) /\ Handled) =>
                getRenderInfo(reportData', CompName(compDef[i]))
                   = << [ componentName |-> CompName(compDef[i]), changes |-> << >>,
                          updateCount |-> cycles'[i], timestamp |-> now ] >>
      ]_vars


\* C17 as claimed: whether a render event draws is decided by showOverlay of
\* the options current at the event.  A handled render event of a component
\* with an element root, which raises nothing, leaves the shape list as it is
\* when showOverlay is false, and leaves exactly its rectangle in it when
\* showOverlay is true, also on a plugin constructed with showOverlay false.
C17_OverlayFollowsOptions ==
    [][ \A i \in Watched, el \in Elements, audioOk \in BOOLEAN :
          ( /\ EventStep(i, el, audioOk)
            /\ el.isHTMLElement
            /\ Handled
            /\ options.enabled
            /\ "throw" \notin out' ) =>
              IF options.showOverlay
              THEN overlay'.shapes = << EventShape(el.rect, now) >>
              ELSE overlay'.shapes = overlay.shapes
      ]_vars


\* the shape highlightRect(5, 5, 10, 10) draws at time t
HighlightShape(t) ==
    drawRect(NewOverlayManager(TRUE),
             [ x |-> 5, y |-> 5, width |-> 10, height |-> 10,
               fadeDuration |-> << >> ], t).shapes[1]

\* C18: every draw issued through the plugin clears the earlier shapes first.
\* The shape list never holds more than one shape; right after highlightRect
\* on a plugin with an overlay, and right after a render event that draws
\* (overlay present, element root, handled, nothing raised), it holds exactly
\* the new rectangle; highlightRect on a plugin without overlay changes
\* nothing and raises nothing.
C18_HighlightsNeverStack ==
    [][ /\ Len(overlay'.shapes) <= 1
        /\ lastOp' = "highlightRect" =>
              IF hasOverlay
              THEN overlay'.shapes = << HighlightShape(now) >>
              ELSE /\ overlay' = overlay
                   /\ out' = {}
                   /\ reportData' = reportData
                   /\ timers' = timers
        /\ \A i \in Watched, el \in Elements, audioOk \in BOOLEAN :
              ( /\ EventStep(i, el, audioOk)
                /\ el.isHTMLElement
                /\ Handled
                /\ hasOverlay
                /\ "throw" \notin out' ) =>
                  overlay'.shapes = << EventShape(el.rect, now) >>
      ]_vars

\* highlightRect has just replaced the rectangle of a render event whose
\* auto-clear timer is still pending
C18_Witness ==
    /\ lastOp = "highlightRect"
    /\ hasOverlay
    /\ overlay.shapes = << HighlightShape(now) >>
    /\ now >= TickStep
    /\ timers # << >>
    /\ Head(timers).kind = "clear"
    /\ Head(timers).due > now


\* C19: a render event that draws a rectangle schedules a clear for 50ms
\* later, whatever the fade duration of the shape.  No operation takes a
\* pending timer away (not setPaused, stop, or a later event): only its own
\* firing removes it, at or after its due time, and when the clear of an event
\* has fired the shape list is empty, so the rectangle of that event is gone.
C19_AutoClearAlwaysFires ==
    [][ /\ \A i \in Watched, el \in Elements, audioOk \in BOOLEAN :
              ( /\ EventStep(i, el, audioOk)
                /\ el.isHTMLElement
                /\ Handled
                /\ hasOverlay
                /\ "throw" \notin out' ) =>
                  /\ timers' # << >>
                  /\ timers'[Len(timers')] = [kind |-> "clear", due |-> now + AutoClearDelay]
                  /\ overlay'.shapes[1].fadeDuration = DefaultFadeDuration
        /\ lastOp' # "timeout" =>
              /\ Len(timers') >= Len(timers)
              /\ SubSeq(timers', 1, Len(timers)) = timers
        /\ lastOp' = "timeout" =>
              /\ timers' = Tail(timers)
              /\ Head(timers).due <= now
              /\ Head(timers).kind = "clear" =>
                    /\ hasOverlay
                    /\ overlay'.shapes = << >>
                    /\ overlay'.animationFrameId = Null
      ]_vars

\* the auto-clear of a render event has just fired, 50ms after the event and
\* with the instrumentation paused in between, and removed the rectangle
C19_Witness ==
    /\ lastOp = "timeout"
    /\ out = {}
    /\ hasOverlay
    /\ paused
    /\ now >= AutoClearDelay
    /\ overlay.shapes = << >>
    /\ reportData # << >>


\* C20 as claimed: when time advances, scheduled frame callbacks keep firing
\* and drawRect is no longer called, the loop eventually is Idle and stays
\* Idle: every shape has been removed and no frame callback is scheduled.
C20_LoopReachesIdle == <>[]Idle


\* C21 as claimed: an overlay without drawing context is harmless to drive.
\* Nothing it does raises, and its shapes still end: once drawRect is no
\* longer called, time advances and the frame callbacks keep firing, every
\* shape is removed and the loop settles in Idle instead of scheduling frame
\* callbacks for ever.
C21_NoContextHarmless ==
    /\ [](~overlay.ctx => "throw" \notin out)
    /\ <>[](~overlay.ctx => Idle)


\* C22: the update counter of a component instance starts at 0, goes up by
\* exactly 1 in every update cycle of the instance, paused or not and
\* whatever trackUpdates says, and never goes down.  The record built in the
\* k-th update cycle of the instance, when one is built, has updateCount = k;
\* when none is built (paused, or trackUpdates false) the store stays as it is.
C22_CounterCountsEveryCycle ==
    [][ \A i \in Instances :
          /\ (phase[i] = "none" /\ phase'[i] = "created") => vueScanUpdateCount'[i] = 0
          /\ vueScanUpdateCount'[i] >= vueScanUpdateCount[i]
          /\ vueScanUpdateCount'[i] = cycles'[i]
          /\ IF BeforeUpdateStep(i)
             THEN vueScanUpdateCount'[i] = vueScanUpdateCount[i] + 1
             ELSE cycles'[i] = cycles[i] => vueScanUpdateCount'[i] = vueScanUpdateCount[i]
          /\ UpdatedStep(i) =>
                IF Handled
                THEN getRenderInfo(reportData', CompName(compDef[i]))
                        = << [ componentName |-> CompName(compDef[i]), changes |-> << >>,
                               updateCount |-> cycles'[i], timestamp |-> now ] >>
                ELSE reportData' = reportData
      ]_vars

\* the only instance has just had its second update stored as 2, the first
\* one having gone unrecorded
C22_Witness ==
    /\ lastOp = "updated"
    /\ Handled
    /\ mixins = 1
    /\ phase = [i \in Instances |-> IF i = 1 THEN "mounted" ELSE "none"]
    /\ cycles[1] = 2
    /\ sinceMount[CompName(compDef[1])] = Dropped
    /\ Record(CompName(compDef[1])) # << >>
    /\ Record(CompName(compDef[1]))[1].updateCount = 2


\* C23: a frame callback on an overlay with a drawing context drops every
\* shape with now - T >= D without drawing it and draws every other shape, in
\* order, at opacity 1 - (now - T)/D, kept as the fraction alphaNum/alphaDen.
\* Every opacity drawn lies in (0, 1], is 1 only when now = T and is one half
\* when now = T + D/2; a shape with D <= 0 is never drawn and no opacity has
\* a zero denominator.  Shapes never start in the future.
C23_OpacityFadesLinearly ==
    [][ /\ \A k \in 1..Len(overlay'.shapes) : overlay'.shapes[k].startTime <= now'
        /\ (lastOp' = "renderLoop" /\ overlay.ctx) =>
              /\ overlay'.shapes =
                    SelectSeq(overlay.shapes, LAMBDA s : now - s.startTime < s.fadeDuration)
              /\ Len(overlay'.canvas) = Len(overlay'.shapes)
              /\ \A k \in 1..Len(overlay'.shapes) :
                    LET s == overlay'.shapes[k]
                        c == overlay'.canvas[k]
                    IN  /\ s.fadeDuration > 0
                        /\ c.alphaDen > 0
                        /\ c.x = s.x /\ c.y = s.y /\ c.width = s.width /\ c.height = s.height
                        \* c.alphaNum / c.alphaDen = 1 - (now - T)/D
                        /\ c.alphaNum * s.fadeDuration
                              = c.alphaDen * (s.fadeDuration - (now - s.startTime))
                        /\ 0 < c.alphaNum /\ c.alphaNum <= c.alphaDen
                        /\ (c.alphaNum = c.alphaDen) <=> (now = s.startTime)
                        /\ (2 * (now - s.startTime) = s.fadeDuration) =>
                              2 * c.alphaNum = c.alphaDen
      ]_vars

\* a frame has just drawn one shape at half opacity, half its fade duration
\* after it was created, and a second one, created just now, at full opacity
C23_Witness ==
    /\ lastOp = "renderLoop"
    /\ overlay.ctx
    /\ Len(overlay.canvas) = 2
    /\ 2 * overlay.canvas[1].alphaNum = overlay.canvas[1].alphaDen
    /\ overlay.canvas[2].alphaNum = overlay.canvas[2].alphaDen
    /\ overlay.shapes[2].startTime = now

====
